---------------------------- MODULE Spec2Model ----------------------------
(***************************************************************************)
(* Statement ingestion pipeline of the TaxMate Streamlit front end:        *)
(*   - parse_gtbank_pdf_to_rows (src/app.py:95-197), the PDF extractor;    *)
(*   - the CSV extractor inlined in page_hustle (src/app.py:1362-1424);    *)
(*   - the import / review / confirm part of page_hustle                   *)
(*     (src/app.py:1343-1563) with APIClient.import_statement and          *)
(*     APIClient.confirm_statement (src/api_client.py:161-192);            *)
(*   - what surrounds it in a browser session: login and logout           *)
(*     (page_account, src/app.py:405-437), the cached profile and hustle   *)
(*     list and the hustle selector (src/app.py:63-78, 1218-1280).         *)
(*                                                                         *)
(* Text is a sequence of atoms.  An atom is one character ("5", ",", " ")  *)
(* or a word that is treated as a unit ("Trans", "Debit", "ref").  Python  *)
(* None is the one-atom text None_.  Amounts are integers (whole naira).   *)
(***************************************************************************)
EXTENDS Integers, Sequences, FiniteSets, TLC

VARIABLES
    uploaded,       \* the file held by st.file_uploader, or NoFile
    preview_rows,   \* preview_rows built by the latest script run
    backend_rows,   \* backend_rows built by the latest script run
    origin,         \* origin[j] = index of the input row that appended backend_rows[j]
    messages,       \* st.error / st.warning / st.success shown by the latest run
    importCall,     \* request passed to client.import_statement in the latest run, or NoCall
    confirmCall,    \* request passed to client.confirm_statement in the latest run, or NoCall
    session,        \* st.session_state: "last_statement_import" present? and its value
    editorDf,       \* the DataFrame the st.data_editor widget was rendered with, <<>> if not rendered
    edited_df,      \* what st.data_editor returned in the latest run (df with the user's edits)
    editorFresh,    \* TRUE when the latest run created the editor widget anew (no edits carried over)
    clicked,        \* the st.button that returned True in the latest run: "import", "save" or "none"
    page,           \* the page picked in the sidebar: "My Hustle" or "Account"
    auth,           \* st.session_state.auth
    profile_data,   \* st.session_state: "profile_data" present? and its value
    hustles,        \* st.session_state: "hustles" present? and its value
    selected_index, \* the option held by the "Choose which hustle" selectbox, counted from 1
    callArgs,       \* hustle_id and access token passed to the client calls of the latest run
    importedVia     \* hustle_id and access token of the import call that returned the statement of the session

vars == << uploaded, preview_rows, backend_rows, origin, messages, importCall,
           confirmCall, session, editorDf, edited_df, editorFresh, clicked,
           page, auth, profile_data, hustles, selected_index, callArgs, importedVia >>

---------------------------------------------------------------------------
(* Bounds of the model *)

\* largest number of data rows in an uploaded file
MaxRows == 2

\* largest number of rows in a statement returned by the import service
MaxStmtRows == 2

---------------------------------------------------------------------------
(* Python values *)

None_ == << "<None>" >>

\* `x or ""`
OrEmpty(x) == IF x = None_ THEN << >> ELSE x

\* `x or None`
OrNone(x) == IF x = << >> THEN None_ ELSE x

RECURSIVE LStrip(_)
LStrip(s) == IF s # << >> /\ Head(s) = " " THEN LStrip(Tail(s)) ELSE s

RECURSIVE RStrip(_)
RStrip(s) == IF s # << >> /\ s[Len(s)] = " " THEN RStrip(SubSeq(s, 1, Len(s) - 1)) ELSE s

\* str.strip()
Strip(s) == RStrip(LStrip(s))

\* faulty variant: the thousands separators left in place
KeepCommas(s) == s

\* str.replace(",", "")
RemoveCommas(s) == SelectSeq(s, LAMBDA a : a # ",")

Digits == { "0", "1", "2", "3", "4", "5", "6", "7", "8", "9" }

DigitVal(a) ==
    CASE a = "0" -> 0 [] a = "1" -> 1 [] a = "2" -> 2 [] a = "3" -> 3 [] a = "4" -> 4
      [] a = "5" -> 5 [] a = "6" -> 6 [] a = "7" -> 7 [] a = "8" -> 8 [] a = "9" -> 9

AllDigits(s) == s # << >> /\ \A i \in 1..Len(s) : s[i] \in Digits

RECURSIVE NatOf(_)
NatOf(s) == IF s = << >> THEN 0 ELSE 10 * NatOf(SubSeq(s, 1, Len(s) - 1)) + DigitVal(s[Len(s)])

\* does float(s) succeed (no ValueError)?  s is already stripped.
FloatOk(s) ==
    \/ AllDigits(s)
    \/ s # << >> /\ Head(s) = "-" /\ AllDigits(Tail(s))

\* float(s) when FloatOk(s)
FloatOf(s) == IF Head(s) = "-" THEN 0 - NatOf(Tail(s)) ELSE NatOf(s)

\* (cell or "").replace(",", "").strip()
AmountStr(cell) == Strip(RemoveCommas(OrEmpty(cell)))

\* try: float(s) if s not in ("", None) else 0.0 / except ValueError: 0.0
ParseAmount(s) ==
    IF s = << >> \/ s = None_ THEN 0
    ELSE IF FloatOk(s) THEN FloatOf(s) ELSE 0

---------------------------------------------------------------------------
(* Direction rules of the two extractors *)

\* faulty variant: the two directions exchanged
CsvDirectionSwapped(debit, credit) ==
    IF credit > 0 THEN [emit |-> TRUE, direction |-> "EXPENSE", amount |-> credit]
    ELSE IF debit > 0 THEN [emit |-> TRUE, direction |-> "INCOME", amount |-> debit]
    ELSE [emit |-> FALSE, direction |-> "NONE", amount |-> 0]

\* CSV, src/app.py:1396-1403: if credit > 0 / elif debit > 0 / else: continue
CsvDirection(debit, credit) ==
    IF credit > 0 THEN [emit |-> TRUE, direction |-> "INCOME", amount |-> credit]
    ELSE IF debit > 0 THEN [emit |-> TRUE, direction |-> "EXPENSE", amount |-> debit]
    ELSE [emit |-> FALSE, direction |-> "NONE", amount |-> 0]

\* faulty variant: the `debit == 0.0 and credit == 0.0` test left out
PdfDirectionKeepsZero(debit, credit) ==
    IF credit > 0 THEN [emit |-> TRUE, direction |-> "INCOME", amount |-> credit]
    ELSE [emit |-> TRUE, direction |-> "EXPENSE", amount |-> debit]

\* PDF, src/app.py:155-170: both zero -> continue; if credit > 0 / else
PdfDirection(debit, credit) ==
    IF debit = 0 /\ credit = 0 THEN [emit |-> FALSE, direction |-> "NONE", amount |-> 0]
    ELSE IF credit > 0 THEN [emit |-> TRUE, direction |-> "INCOME", amount |-> credit]
    ELSE [emit |-> TRUE, direction |-> "EXPENSE", amount |-> debit]

---------------------------------------------------------------------------
(* CSV extractor, src/app.py:1362-1424 *)

Range(f) == { f[i] : i \in DOMAIN f }

required_cols == { "date", "description", "debit", "credit" }

\* faulty variant: "credit" not among the columns looked for
CsvMissingButCredit(header) == { "date", "description", "debit" } \ Range(header)

\* required_cols - set(reader.fieldnames or [])
CsvMissing(header) == required_cols \ Range(header)

\* sorted(missing): alphabetical order of the column names
SortedCols(S) == SelectSeq(<< "credit", "date", "debit", "description" >>, LAMBDA c : c \in S)

\* csv.DictReader row: row.get(col).  The value under a field name is the cell
\* at the last position of that name; fields beyond the row's cells are None.
CsvGet(header, row, col) ==
    IF \E i \in 1..Len(header) : header[i] = col
    THEN LET i == CHOOSE k \in 1..Len(header) :
                      header[k] = col /\ \A m \in (k+1)..Len(header) : header[m] # col
         IN  IF i <= Len(row) THEN row[i] ELSE None_
    ELSE None_

\* faulty variant: the test of the date and the description left out
CsvEntriesUntested(date_str, desc, debit, credit, d) ==
    IF ~d.emit THEN [emit |-> FALSE]
    ELSE [emit    |-> TRUE,
          backend |-> [date |-> date_str, description |-> desc, amount |-> d.amount,
                       direction |-> d.direction, reference |-> None_,
                       counterparty |-> None_],
          preview |-> [date |-> date_str, description |-> desc, debit |-> debit,
                       credit |-> credit, mapped_direction |-> d.direction,
                       mapped_amount |-> d.amount]]

\* 1384-1424 of one iteration: the skips and the two appended entries, given
\* the cleaned cells, the parsed amounts and d, the outcome of the direction rule
CsvEntries(date_str, desc, debit, credit, d) ==
    IF date_str = << >> \/ desc = << >> THEN [emit |-> FALSE]
    ELSE IF ~d.emit THEN [emit |-> FALSE]
    ELSE [emit    |-> TRUE,
          backend |-> [date |-> date_str, description |-> desc, amount |-> d.amount,
                       direction |-> d.direction, reference |-> None_,
                       counterparty |-> None_],
          preview |-> [date |-> date_str, description |-> desc, debit |-> debit,
                       credit |-> credit, mapped_direction |-> d.direction,
                       mapped_amount |-> d.amount]]

\* the parsed debit and credit of one iteration (1381-1394), then the rest
CsvCells(date_str, desc, debit, credit) ==
    CsvEntries(date_str, desc, debit, credit, CsvDirection(debit, credit))

\* One iteration of `for row in reader` (1378-1424): the entries it appends.
CsvRow(header, row) ==
    CsvCells(Strip(OrEmpty(CsvGet(header, row, "date"))),
              Strip(OrEmpty(CsvGet(header, row, "description"))),
              ParseAmount(AmountStr(CsvGet(header, row, "debit"))),
              ParseAmount(AmountStr(CsvGet(header, row, "credit"))))

\* faulty variant: the lists of the previous run are carried into the next one
RowsSoFar == [preview |-> preview_rows, backend |-> backend_rows, origin |-> origin]

\* preview_rows = [] / backend_rows = [] at the start of every extraction
\* (101-102, 1375-1376)
NoRows == [preview |-> << >>, backend |-> << >>, origin |-> << >>]

\* faulty variant: the preview entry put in front of the earlier ones
AppendPreviewFirst(acc, r, k) ==
    IF r.emit
    THEN [preview |-> << r.preview >> \o acc.preview,
          backend |-> Append(acc.backend, r.backend),
          origin  |-> Append(acc.origin, k)]
    ELSE acc

\* preview_rows.append(...) / backend_rows.append(...) of iteration k, if any
AppendEntries(acc, r, k) ==
    IF r.emit
    THEN [preview |-> Append(acc.preview, r.preview),
          backend |-> Append(acc.backend, r.backend),
          origin  |-> Append(acc.origin, k)]
    ELSE acc

\* the row loop: rows[k..] processed after acc was built from rows[1..k-1]
RECURSIVE CsvLoop(_, _, _, _)
CsvLoop(header, rows, k, acc) ==
    IF k > Len(rows) THEN acc
    ELSE CsvLoop(header, rows, k + 1, AppendEntries(acc, CsvRow(header, rows[k]), k))

---------------------------------------------------------------------------
(* PDF extractor, parse_gtbank_pdf_to_rows, src/app.py:95-197 *)

\* `marker in text` for the atoms of the model: a word contains itself, and
\* "Transfer" contains "Trans"
AtomContains(a, marker) == a = marker \/ (a = "Transfer" /\ marker = "Trans")

TextContains(text, marker) == \E i \in 1..Len(text) : AtomContains(text[i], marker)

\* " ".join(parts)
RECURSIVE JoinSp(_)
JoinSp(parts) ==
    IF parts = << >> THEN << >>
    ELSE IF Len(parts) = 1 THEN parts[1]
    ELSE parts[1] \o << " " >> \o JoinSp(Tail(parts))

\* faulty variant: the markers looked for in the date and debit cells only
IsHeaderRowFixedCells(row) ==
    /\ Len(row) >= 4
    /\ TextContains(OrEmpty(row[1]), "Trans")
    /\ TextContains(OrEmpty(row[4]), "Debit")

\* joined = " ".join([cell or "" for cell in row]); "Trans" in joined and "Debit" in joined
IsHeaderRow(row) ==
    LET joined == JoinSp([i \in 1..Len(row) |-> OrEmpty(row[i])])
    IN  TextContains(joined, "Trans") /\ TextContains(joined, "Debit")

\* description = " ".join(p for p in desc_parts if p).strip(), then `reference or remarks or ""`
PdfDescription(reference, remarks) ==
    LET description == Strip(JoinSp(SelectSeq(<< reference, remarks >>, LAMBDA p : p # << >>)))
    IN  IF description = << >>
        THEN (IF reference # << >> THEN reference ELSE IF remarks # << >> THEN remarks ELSE << >>)
        ELSE description

\* 141-195 of one iteration: the skips and the two appended entries, given
\* the cleaned cells, the parsed amounts and d, the outcome of the direction rule
PdfEntries(trans_date, reference, value_date, debit, credit, balance, remarks, d) ==
    IF trans_date = << >> THEN [emit |-> FALSE]
    ELSE IF ~d.emit THEN [emit |-> FALSE]
    ELSE [emit    |-> TRUE,
          backend |-> [date |-> trans_date,
                       description |-> PdfDescription(reference, remarks),
                       amount |-> d.amount, direction |-> d.direction,
                       reference |-> OrNone(reference), counterparty |-> None_],
          preview |-> [date |-> trans_date, reference |-> reference,
                       value_date |-> value_date, debit |-> debit, credit |-> credit,
                       balance |-> balance, remarks |-> remarks,
                       mapped_direction |-> d.direction, mapped_amount |-> d.amount]]

\* the parsed debit and credit of one iteration (136-153), then the rest
PdfCells(trans_date, reference, value_date, debit, credit, balance, remarks) ==
    PdfEntries(trans_date, reference, value_date, debit, credit, balance, remarks,
               PdfDirection(debit, credit))

\* One iteration of `for row in table` (117-195): the entries it appends.
PdfRow(row) ==
    IF row = << >> THEN [emit |-> FALSE]
    ELSE IF IsHeaderRow(row) THEN [emit |-> FALSE]
    ELSE IF Len(row) < 5 THEN [emit |-> FALSE]
    ELSE PdfCells(Strip(OrEmpty(row[1])),
                    Strip(OrEmpty(row[2])),
                    Strip(OrEmpty(row[3])),
                    ParseAmount(AmountStr(row[4])),
                    ParseAmount(AmountStr(row[5])),
                    IF Len(row) > 5 THEN Strip(OrEmpty(row[6])) ELSE << >>,
                    IF Len(row) > 6 THEN Strip(OrEmpty(row[7])) ELSE << >>)

\* concatenation of a sequence of sequences
RECURSIVE Flatten(_)
Flatten(ss) == IF ss = << >> THEN << >> ELSE Head(ss) \o Flatten(Tail(ss))

\* the rows in the order the three nested loops visit them (106-117); an empty
\* page or table contributes nothing (`if not tables` / `if not table`)
PdfInputRows(pages) == Flatten(Flatten(pages))

RECURSIVE PdfLoop(_, _, _)
PdfLoop(rows, k, acc) ==
    IF k > Len(rows) THEN acc
    ELSE PdfLoop(rows, k + 1, AppendEntries(acc, PdfRow(rows[k]), k))

---------------------------------------------------------------------------
(* Uploaded files *)

\* no file in the uploader (uploaded_file is None)
NoFile == [present |-> FALSE, stem |-> "", ext |-> "", header |-> << >>, rows |-> << >>,
           pages |-> << >>, raisesAt |-> 0]

\* a CSV file as csv.DictReader reads it: the field names and the data rows
CsvFile(stem, ext, header, rows) ==
    [present |-> TRUE, stem |-> stem, ext |-> ext, header |-> header, rows |-> rows,
     pages |-> << >>, raisesAt |-> 0]

\* a PDF file as pdfplumber reads it: pages of tables of rows of cells;
\* raisesAt = k > 0: pdfplumber raises on reaching page k (k = 1: on opening)
PdfFile(stem, ext, pages, raisesAt) ==
    [present |-> TRUE, stem |-> stem, ext |-> ext, header |-> << >>, rows |-> << >>,
     pages |-> pages, raisesAt |-> raisesAt]

\* str.lower() on the extension
Lower(ext) ==
    CASE ext = ".CSV" -> ".csv" [] ext = ".Pdf" -> ".pdf" [] OTHER -> ext

\* faulty variant: every file name passes the suffix test
EndsWithAnything(file, suffix) == TRUE

\* filename.lower().endswith(suffix)
LowerEndsWith(file, suffix) == Lower(file.ext) = suffix

\* faulty variant: the rows parsed before pdfplumber raised are kept
ExtractKeepingParsed(file) ==
    IF LowerEndsWith(file, ".csv")
    THEN IF CsvMissing(file.header) # {}
         THEN [status |-> "csv_missing", missing |-> CsvMissing(file.header), out |-> NoRows]
         ELSE [status |-> "ok", missing |-> {},
               out |-> CsvLoop(file.header, file.rows, 1, NoRows)]
    ELSE IF LowerEndsWith(file, ".pdf")
    THEN IF file.raisesAt # 0
         THEN [status |-> "pdf_error", missing |-> {},
               out |-> PdfLoop(PdfInputRows(SubSeq(file.pages, 1, file.raisesAt - 1)), 1,
                               NoRows)]
         ELSE [status |-> "ok", missing |-> {},
               out |-> PdfLoop(PdfInputRows(file.pages), 1, NoRows)]
    ELSE [status |-> "unsupported", missing |-> {}, out |-> NoRows]

\* the branch at 1362-1435: what the run has after the extraction.  When
\* pdfplumber raises, the lists parse_gtbank_pdf_to_rows was filling are lost
\* with its frame and the caller's names are never bound (1426-1431).
Extract(file) ==
    IF LowerEndsWith(file, ".csv")
    THEN LET missing == CsvMissing(file.header)
         IN  IF missing # {}
             THEN [status |-> "csv_missing", missing |-> missing, out |-> NoRows]
             ELSE [status |-> "ok", missing |-> {},
                   out |-> CsvLoop(file.header, file.rows, 1, NoRows)]
    ELSE IF LowerEndsWith(file, ".pdf")
    THEN IF file.raisesAt # 0
         THEN [status |-> "pdf_error", missing |-> {}, out |-> NoRows]
         ELSE [status |-> "ok", missing |-> {},
               out |-> PdfLoop(PdfInputRows(file.pages), 1, NoRows)]
    ELSE [status |-> "unsupported", missing |-> {}, out |-> NoRows]

---------------------------------------------------------------------------
(* JSON values exchanged with the backend.  Scalars are strings; Null is a   *)
(* JSON null or a missing key (dict.get returns None).                       *)

Null == "<null>"

\* Python truthiness of a JSON scalar
Truthy(x) == x # Null /\ x # ""

CATEGORY_OPTIONS ==
    << "SALES", "STOCK", "FUEL", "DATA_AIRTIME", "RENT", "EQUIPMENT", "TRANSPORT",
       "FOOD", "MISC" >>

\* str(x) of a value that is a string already
Str(x) == x

---------------------------------------------------------------------------
(* APIClient.import_statement / confirm_statement, src/api_client.py:161-192 *)

\* What requests.post and resp.json() can do:
\*   raised   requests.post raises (network error, timeout)
\*   status   the HTTP status of the response
\*   decodes  resp.json() returns the body (otherwise it raises)
HttpOutcomes ==
    { [raised |-> FALSE, status |-> 200, decodes |-> TRUE],
      [raised |-> FALSE, status |-> 200, decodes |-> FALSE],
      [raised |-> FALSE, status |-> 422, decodes |-> TRUE],
      [raised |-> TRUE,  status |-> 0,   decodes |-> FALSE] }

\* faulty variant: the body of an error response returned without decoding it
ApiResultBodyUndecoded(http) ==
    IF http.raised THEN [ok |-> FALSE, value |-> "exception"]
    ELSE IF http.status >= 400 THEN [ok |-> FALSE, value |-> "body"]
    ELSE IF http.decodes THEN [ok |-> TRUE, value |-> "body"]
    ELSE [ok |-> FALSE, value |-> "exception"]

\* faulty variant: the status of the response not looked at
ApiResultNoStatusCheck(http) ==
    IF http.raised \/ ~http.decodes THEN [ok |-> FALSE, value |-> "exception"]
    ELSE [ok |-> TRUE, value |-> "body"]

\* the (ok, value) pair of the try/except at 169-175 and 186-192;
\* value is "body" (resp.json()) or "exception" ({"error": str(e)})
ApiResult(http) ==
    IF http.raised THEN [ok |-> FALSE, value |-> "exception"]
    ELSE IF http.status >= 400
         THEN (IF http.decodes THEN [ok |-> FALSE, value |-> "body"]
                               ELSE [ok |-> FALSE, value |-> "exception"])
         ELSE (IF http.decodes THEN [ok |-> TRUE, value |-> "body"]
                               ELSE [ok |-> FALSE, value |-> "exception"])

---------------------------------------------------------------------------
(* Review editor, src/app.py:1464-1527 *)

\* `statement.get("rows") or []`
RowsOf(statement) == IF statement.hasRows THEN statement.rows ELSE << >>

\* faulty variant: the suggested category taken as it comes
EditorRowAnyCategory(r) ==
    [import |-> TRUE, id |-> r.id,
     direction |-> IF Truthy(r.directionSuggested) THEN r.directionSuggested ELSE "INCOME",
     category  |-> IF Truthy(r.categorySuggested) THEN r.categorySuggested ELSE "MISC"]

\* one element of data_for_editor (1475-1502); the columns date, description,
\* amount, source and confidence are display-only and are not modelled
EditorRow(r) ==
    LET direction          == IF Truthy(r.directionSuggested) THEN r.directionSuggested
                              ELSE "INCOME"
        suggested_category == IF Truthy(r.categorySuggested) THEN r.categorySuggested
                              ELSE "MISC"
        category           == IF suggested_category \notin Range(CATEGORY_OPTIONS)
                              THEN "MISC" ELSE suggested_category
    IN  [import |-> TRUE, id |-> r.id, direction |-> direction, category |-> category]

\* df = pd.DataFrame(data_for_editor)
BuildDf(rows) == [i \in 1..Len(rows) |-> EditorRow(rows[i])]

\* faulty variant: the "Import?" tick not looked at
ItemsOfRowIgnoringTick(row) ==
    IF ~Truthy(row.id) \/ ~Truthy(row.direction) \/ ~Truthy(row.category) THEN << >>
    ELSE << [importedTransactionId |-> Str(row.id), finalType |-> Str(row.direction),
             finalCategory |-> Str(row.category), note |-> Null] >>

\* faulty variant: the loop left after the first row
ItemsOfFirstRow(df) ==
    IF df = << >> THEN << >>
    ELSE LET row == Head(df)
         IN  IF row.import /\ Truthy(row.id) /\ Truthy(row.direction) /\ Truthy(row.category)
             THEN << [importedTransactionId |-> Str(row.id), finalType |-> Str(row.direction),
                      finalCategory |-> Str(row.category), note |-> Null] >>
             ELSE << >>

\* the body of `for _, row in edited_df.iterrows()` (1531-1546): the items it appends
ItemsOfRow(row) ==
    IF ~row.import THEN << >>
    ELSE IF ~Truthy(row.id) \/ ~Truthy(row.direction) \/ ~Truthy(row.category) THEN << >>
    ELSE << [importedTransactionId |-> Str(row.id), finalType |-> Str(row.direction),
             finalCategory |-> Str(row.category), note |-> Null] >>

RECURSIVE BuildItems(_)
BuildItems(df) == IF df = << >> THEN << >> ELSE ItemsOfRow(Head(df)) \o BuildItems(Tail(df))

---------------------------------------------------------------------------
(* Inputs: the files a user may upload *)

\* sequences over S of length at most n
SeqsUpTo(S, n) == UNION { [1..k -> S] : k \in 0..n }

T_d == << "d" >>
T_x == << "x" >>

\* texts of the debit and credit cells
AmountCells == { << >>, << "0" >>, << " ", "1", ",", "2" >>, << "a" >>, << "-", "3" >> }

StdHeader == << "date", "description", "debit", "credit" >>

\* data rows under StdHeader
CsvRows ==
    { << T_d, T_x, a, b >> : a \in AmountCells, b \in AmountCells }
    \cup { << dt, ds, << "5" >>, << >> >> :
             dt \in { << >>, << " " >>, << "d", " " >> }, ds \in { << >>, << " " >>, T_x } }
    \cup { << T_d >>, << T_d, T_x >>, << T_d, T_x, << "5" >> >> }

\* headers lacking some required columns, or with a column before them, or
\* with a differently cased name
CsvHeaders ==
    { SelectSeq(StdHeader, LAMBDA c : c \in S) : S \in SUBSET required_cols }
    \cup { << "balance" >> \o SelectSeq(StdHeader, LAMBDA c : c \in S) : S \in SUBSET required_cols }
    \cup { << "Date", "description", "debit", "credit" >> }

\* data rows used under the headers of CsvHeaders
WideRows == { << << "9" >>, T_d, T_x, << "0" >>, << "7" >> >>, << T_d, T_x, << "5" >>, << >> >> }

CsvFiles ==
    { CsvFile("stmt", e, StdHeader, rs) : e \in { ".csv" }, rs \in SeqsUpTo(CsvRows, MaxRows) }
    \cup { CsvFile("stmt", ".CSV", h, rs) : h \in CsvHeaders, rs \in SeqsUpTo(WideRows, 1) }

PdfHeaderRow ==
    << << "Trans", " ", "Date" >>, << "Reference" >>, << "Value", " ", "Date" >>, << "Debit" >>,
       << "Credit" >>, << "Balance" >>, << "Remarks" >> >>

PdfAmountCells == { << >>, << "5" >>, << "a" >>, << "-", "3" >> }

PdfRows ==
    { << T_d, << "ref" >>, T_d, a, b >> : a \in PdfAmountCells, b \in PdfAmountCells }
    \cup { PdfHeaderRow,
           \* a short row holding both markers
           << << "Trans" >>, None_, << "Debit" >> >>,
           \* a money movement whose reference and remarks hold the two markers
           << T_d, << "Transfer" >>, T_d, << "5" >>, << >>, << "9" >>, << "Debit", " ", "card" >> >>,
           \* only one of the markers
           << T_d, << "Transfer" >>, T_d, << >>, << "1", ",", "2" >> >>,
           \* None cells, empty reference, remarks only
           << T_d, None_, None_, None_, << "7" >>, None_, << " ", "rem" >> >>,
           \* six cells, empty reference
           << T_d, << >>, T_d, << "4" >>, None_, << "9" >> >>,
           \* blank date
           << << " " >>, << "ref" >>, T_d, << "5" >>, << >> >>,
           \* fewer than five cells
           << T_d, << "ref" >>, T_d, << "5" >> >>,
           \* empty row
           << >> }

\* one page holding one table with all rows
OneTable(rs) == << << rs >> >>

\* an empty page, then one page per row, each holding an empty table and a
\* table with that row
PagePerRow(rs) == << << >> >> \o [i \in 1..Len(rs) |-> << << >>, << rs[i] >> >>]

PdfFiles ==
    { PdfFile("stmt", ".pdf", OneTable(rs), 0) : rs \in SeqsUpTo(PdfRows, MaxRows) }
    \cup { PdfFile("stmt", ".Pdf", PagePerRow(rs), 0) : rs \in SeqsUpTo(PdfRows, MaxRows) }
    \cup { PdfFile("stmt", ".pdf", OneTable(<< r >>), 1) : r \in { PdfHeaderRow } }

\* the input rows of a file in the order the extractor visits them
InputRows(file) ==
    IF LowerEndsWith(file, ".csv") THEN file.rows ELSE PdfInputRows(file.pages)

---------------------------------------------------------------------------
(* Inputs: what the import service may return, what the user may enter *)

ImportedRow(id, direction, category) ==
    [id |-> id, directionSuggested |-> direction, categorySuggested |-> category]

\* rows the import service returns: a well-formed one, one with no direction
\* and a category outside the vocabulary, one with no id and no category, one
\* with a direction outside the enum and the id of the first
ServerRows ==
    << ImportedRow("r1", "EXPENSE", "FUEL"),
       ImportedRow("r2", Null, "BOGUS"),
       ImportedRow(Null, "INCOME", Null),
       ImportedRow("r1", "TRANSFER", "MISC") >>

\* k consecutive rows of ServerRows (cyclically) from position start
Window(start, k) == [i \in 1..k |-> ServerRows[((start + i - 2) % Len(ServerRows)) + 1]]

Statements ==
    { [id |-> IF start = 1 THEN "s1" ELSE "s2", hasRows |-> TRUE, rows |-> Window(start, k)] :
        start \in { 1, 3 }, k \in 1..MaxStmtRows }
    \cup { [id |-> "s1", hasRows |-> TRUE, rows |-> << >>],
           [id |-> "s2", hasRows |-> FALSE, rows |-> << >>] }

\* the options of the "Type" column (1514-1517)
TypeOptions == { "INCOME", "EXPENSE" }

\* what the user leaves in a cell of the "Category" column: an option, or
\* nothing (the column is not `required`, so the cell can be emptied)
PickedCategories == { "SALES", Null }

\* files uploaded while a statement is reviewed
GoodCsv == CsvFile("jan", ".csv", StdHeader, << << T_d, T_x, << >>, << "5" >> >> >>)

\* a PDF table row with a debit of 5
GoodPdfRow == << T_d, << "ref" >>, T_d, << "5" >>, << >> >>

\* a PDF table row with a credit of 7, no reference and remarks
CreditPdfRow == << T_d, None_, None_, None_, << "7" >>, None_, << " ", "rem" >> >>

\* a well-formed PDF statement: the header row, a debit, a credit
GoodPdf == PdfFile("feb", ".pdf", OneTable(<< PdfHeaderRow, GoodPdfRow, CreditPdfRow >>), 0)

SessionFiles ==
    { GoodCsv,
      CsvFile("bad", ".csv", << "date", "debit" >>, << << T_d, << "5" >> >> >>),
      CsvFile("case", ".csv", << "Date", "description", "debit", "credit" >>,
              << << T_d, T_x, << >>, << "5" >> >> >>),
      CsvFile("empty", ".csv", << >>, << >>),
      CsvFile("zero", ".csv", StdHeader, << << T_d, T_x, << "0" >>, << "a" >> >> >>),
      PdfFile("broken", ".pdf", << >>, 1),
      PdfFile("torn", ".Pdf", << << << GoodPdfRow >> >>, << >> >>, 2),
      CsvFile("notes", ".txt", StdHeader, << << T_d, T_x, << >>, << "5" >> >> >>) }

---------------------------------------------------------------------------
(* One run of the import tab of page_hustle, src/app.py:1343-1563 *)

Msg(level, code, columns, count) ==
    [level |-> level, code |-> code, columns |-> columns, count |-> count]

\* no response: the call was not made
NoHttp == [raised |-> FALSE, status |-> 0, decodes |-> FALSE]

NoImport ==
    [called |-> FALSE, source |-> "", fileName |-> << >>, rows |-> << >>, http |-> NoHttp,
     returned |-> [id |-> Null, hasRows |-> FALSE, rows |-> << >>]]

NoConfirm == [called |-> FALSE, statement_id |-> Null, items |-> << >>, http |-> NoHttp]

\* a statement as the import service returns it; hasRows = FALSE: "rows" is
\* missing or null
NoStatement == [id |-> Null, hasRows |-> FALSE, rows |-> << >>]

NoSession == [has |-> FALSE, statement |-> NoStatement]

\* Extract on the files of SessionFiles, computed once
SessionExtract == [f \in SessionFiles |-> Extract(f)]

ExtractOf(file) == IF file \in SessionFiles THEN SessionExtract[file] ELSE Extract(file)

\* show_api_error(value), src/app.py:53-60
ApiErrorMsg(value) == Msg("error", "api_error", << value >>, 0)

\* `if ok: st.success(...) else: show_api_error(statement)`, 1455-1461
ImportMsgs(res, statement) ==
    IF res.ok
    THEN << Msg("success", "statement_imported", << >>, Len(RowsOf(statement))) >>
    ELSE << ApiErrorMsg(res.value) >>

\* faulty variant: whatever the call returned is stored
SessionStoresResponse(sess, res, statement) == [has |-> TRUE, statement |-> statement]

\* faulty variant: a statement already in the session is kept
SessionKeptIfLoaded(sess, res, statement) ==
    IF res.ok /\ ~sess.has THEN [has |-> TRUE, statement |-> statement] ELSE sess

\* `if ok: st.session_state["last_statement_import"] = statement`, 1455-1459
SessionAfterImport(sess, res, statement) ==
    IF res.ok THEN [has |-> TRUE, statement |-> statement] ELSE sess

\* faulty variant: the emptiness test of the extracted rows left out
NeverNoUsableRows(out) == FALSE

\* `if not backend_rows:`, 1437
NoUsableRows(out) == out.backend = << >>

\* faulty variant: only the slice shown in the preview is sent, the slice
\* being one row long
ImportPayloadOfSlice(file, backend, http, statement) ==
    [called   |-> TRUE,
     source   |-> IF LowerEndsWith(file, ".pdf") THEN "PDF upload" ELSE "CSV upload",
     fileName |-> << file.stem, file.ext >>,
     rows     |-> SubSeq(backend, 1, 1),
     http     |-> http,
     returned |-> statement]

\* the payload of import_statement (1445-1449) with the response it gets
\* (http) and the statement a successful response carries
ImportPayload(file, backend, http, statement) ==
    [called   |-> TRUE,
     source   |-> IF LowerEndsWith(file, ".pdf") THEN "PDF upload" ELSE "CSV upload",
     fileName |-> << file.stem, file.ext >>,
     rows     |-> backend,
     http     |-> http,
     returned |-> statement]

\* `if uploaded_file is not None:` block, 1357-1461.
\* returned = TRUE: the function returned before the review section.
UploadBlock(file, sess, clickImport, http, statement) ==
    IF ~file.present
    THEN [returned |-> FALSE, out |-> NoRows, msgs |-> << >>, importCall |-> NoImport,
          session |-> sess]
    ELSE
    LET ex == ExtractOf(file)
    IN  IF ex.status = "csv_missing"
        THEN [returned |-> TRUE, out |-> NoRows,
              msgs |-> << Msg("error", "csv_missing_columns", SortedCols(ex.missing), 0) >>,
              importCall |-> NoImport, session |-> sess]
        ELSE IF ex.status = "pdf_error"
        THEN [returned |-> TRUE, out |-> ex.out,
              msgs |-> << Msg("error", "pdf_parse", << >>, 0) >>,
              importCall |-> NoImport, session |-> sess]
        ELSE IF ex.status = "unsupported"
        THEN [returned |-> TRUE, out |-> NoRows,
              msgs |-> << Msg("error", "unsupported_file_type", << >>, 0) >>,
              importCall |-> NoImport, session |-> sess]
        ELSE IF NoUsableRows(ex.out)
        THEN [returned |-> TRUE, out |-> ex.out,
              msgs |-> << Msg("warning", "no_usable_rows", << >>, 0) >>,
              importCall |-> NoImport, session |-> sess]
        ELSE IF ~clickImport
        THEN [returned |-> FALSE, out |-> ex.out, msgs |-> << >>, importCall |-> NoImport,
              session |-> sess]
        ELSE
        LET payload == ImportPayload(file, ex.out.backend, http, statement)
            res     == ApiResult(http)
        IN  [returned |-> FALSE, out |-> ex.out, msgs |-> ImportMsgs(res, statement),
             importCall |-> payload, session |-> SessionAfterImport(sess, res, statement)]

\* faulty variant: the emptiness test left out
NeverNothingToSend(items) == FALSE

\* `if not items:`, 1548
NothingToSend(items) == items = << >>

\* `if ok: st.success(...) else: show_api_error(result)`, 1558-1563
ConfirmMsgs(res, items) ==
    IF res.ok
    THEN << Msg("success", "transactions_imported", << >>, Len(items)) >>
    ELSE << ApiErrorMsg(res.value) >>

NoReview ==
    [df |-> << >>, edited |-> << >>, fresh |-> FALSE, msgs |-> << >>, confirmCall |-> NoConfirm]

\* `if "last_statement_import" in st.session_state:` block, 1464-1563.
\* prevDf / prevEdited: the data and the edited data the editor widget holds
\* from the previous run (the widget keeps its edits while it is rendered
\* with the same data; it is created anew otherwise).
ReviewBlock(sess, prevDf, prevEdited, clickSave, http) ==
    IF ~sess.has THEN NoReview
    ELSE
    LET rows == RowsOf(sess.statement)
    IN  IF rows = << >>
        THEN [NoReview EXCEPT !.msgs = << Msg("info", "no_rows_in_statement", << >>, 0) >>]
        ELSE
        LET df     == BuildDf(rows)
            same   == prevDf = df
            edited == IF same THEN prevEdited ELSE df
            shown  == [df |-> df, edited |-> edited, fresh |-> ~same, msgs |-> << >>,
                       confirmCall |-> NoConfirm]
        IN  IF ~clickSave THEN shown
            ELSE
            LET items == BuildItems(edited)
            IN  IF NothingToSend(items)
                THEN [shown EXCEPT !.msgs = << Msg("warning", "no_rows_selected", << >>, 0) >>]
                ELSE [shown EXCEPT
                        !.msgs = ConfirmMsgs(ApiResult(http), items),
                        !.confirmCall = [called |-> TRUE,
                                         statement_id |-> sess.statement.id,
                                         items |-> items, http |-> http]]

\* faulty variant: the decisions of the editor written into the rows of the
\* statement
SessionWithDecisions(sess, rv) ==
    IF rv.edited = << >> THEN sess
    ELSE [sess EXCEPT !.statement.rows =
              [i \in 1..Len(rv.edited) |->
                  ImportedRow(rv.edited[i].id, rv.edited[i].direction, rv.edited[i].category)]]

\* st.session_state["last_statement_import"] after the review block
\* (1464-1563): the block reads the statement (`statement.get("rows")`,
\* `r.get(...)`, `statement.get("id")`) and assigns nothing to it or to the
\* session
SessionAfterReview(sess, rv) == sess

---------------------------------------------------------------------------
(* Account and hustles, src/app.py:34-78, 405-437, 1218-1280 *)

Users == { "u1", "u2" }

\* the tokens the backend issues to a user at login
TokenOf(u) == IF u = "u1" THEN "access-u1" ELSE "access-u2"

RefreshOf(u) == IF u = "u1" THEN "refresh-u1" ELSE "refresh-u2"

\* get_auth_state, 34-41: the auth entry of a new session
NoAuth == [access_token |-> Null, refresh_token |-> Null, user |-> Null]

\* the auth entry after a successful login, 429-432
AuthOf(u) == [access_token |-> TokenOf(u), refresh_token |-> RefreshOf(u), user |-> u]

\* the hustles the backend lists for a token
HustlesOf(token) ==
    IF token = TokenOf("u1") THEN << [id |-> "h1"], [id |-> "h2"] >> ELSE << [id |-> "h3"] >>

\* "profile_data" / "hustles" not in st.session_state
NoProfile == [has |-> FALSE, data |-> Null, token |-> Null]

NoHustles == [has |-> FALSE, list |-> << >>, token |-> Null]

\* load_profile_if_needed, 63-78: the entry after the call; token records the
\* access token the profile was fetched with
ProfileAfter(prof, token, http) ==
    IF prof.has THEN prof
    ELSE IF ApiResult(http).ok THEN [has |-> TRUE, data |-> << "profile", token >>, token |-> token]
    ELSE [has |-> TRUE, data |-> Null, token |-> Null]

\* `if "hustles" not in st.session_state:`, 1229-1236
HustlesAfter(hs, token, http) ==
    IF hs.has THEN hs
    ELSE IF ApiResult(http).ok THEN [has |-> TRUE, list |-> HustlesOf(token), token |-> token]
    ELSE [has |-> TRUE, list |-> << >>, token |-> Null]

\* hustle_id = hustles[selected_index]["id"], 1279-1280
hustle_id == hustles.list[selected_index].id

\* no client call in the run
NoArgs == [hustle_id |-> Null, access_token |-> Null]

\* the first and the last argument of import_statement and confirm_statement
\* (1450-1454, 1552-1557)
ArgsOf(called) ==
    IF called THEN [hustle_id |-> hustle_id, access_token |-> auth.access_token] ELSE NoArgs

\* the import tab is on the page: logged in (1221), a hustle to select (1267)
OnTab ==
    /\ page = "My Hustle"
    /\ auth.access_token # Null
    /\ hustles.has /\ hustles.list # << >>

---------------------------------------------------------------------------
(* The whole run of the import tab *)

\* what a run of the tab leaves: up from the upload block, rv from the
\* review block, click the button that was pressed
Rendered(file, up, rv, click) ==
    /\ uploaded'     = file
    /\ preview_rows' = up.out.preview
    /\ backend_rows' = up.out.backend
    /\ origin'       = up.out.origin
    /\ messages'     = up.msgs \o rv.msgs
    /\ importCall'   = up.importCall
    /\ confirmCall'  = rv.confirmCall
    /\ session'      = SessionAfterReview(up.session, rv)
    /\ editorDf'     = rv.df
    /\ edited_df'    = rv.edited
    /\ editorFresh'  = rv.fresh
    /\ clicked'      = click
    /\ callArgs'     = ArgsOf(up.importCall.called \/ rv.confirmCall.called)
    /\ importedVia'  = IF up.importCall.called /\ ApiResult(up.importCall.http).ok
                       THEN ArgsOf(TRUE) ELSE importedVia

\* the upload block, then (unless it returned) the review block, with the
\* hustle and the account as they are
Run(file, prevEdited, clickImport, importHttp, statement, clickSave, confirmHttp) ==
    \E up \in { UploadBlock(file, session, clickImport, importHttp, statement) } :
    \E rv \in { IF up.returned THEN NoReview
                ELSE ReviewBlock(up.session, editorDf, prevEdited, clickSave, confirmHttp) } :
        /\ Rendered(file, up, rv,
                    IF clickImport THEN "import" ELSE IF clickSave THEN "save" ELSE "none")
        /\ UNCHANGED << page, auth, profile_data, hustles, selected_index >>

Http200 == [raised |-> FALSE, status |-> 200, decodes |-> TRUE]

---------------------------------------------------------------------------
(* State machine *)

\* nothing uploaded, nothing imported
InitTab ==
    /\ uploaded = NoFile
    /\ preview_rows = << >>
    /\ backend_rows = << >>
    /\ origin = << >>
    /\ messages = << >>
    /\ importCall = NoImport
    /\ confirmCall = NoConfirm
    /\ session = NoSession
    /\ editorDf = << >>
    /\ edited_df = << >>
    /\ editorFresh = FALSE
    /\ clicked = "none"
    /\ callArgs = NoArgs
    /\ importedVia = NoArgs

\* the import tab as first shown to a user who logged in and opened
\* "My Hustle": profile and hustles fetched, the first hustle selected
Init ==
    /\ InitTab
    /\ page = "My Hustle"
    /\ auth = AuthOf("u1")
    /\ profile_data = ProfileAfter(NoProfile, TokenOf("u1"), Http200)
    /\ hustles = HustlesAfter(NoHustles, TokenOf("u1"), Http200)
    /\ selected_index = 1

\* the "Import and auto-categorise this statement" button is on the page (1444)
ImportButtonShown == uploaded.present /\ backend_rows # << >>

\* the data editor and the "Save selected rows" button are on the page (1506-1529)
EditorShown == editorDf # << >>

\* the user picks a file in the uploader
Upload(files) ==
    \E f \in files : Run(f, edited_df, FALSE, Http200, NoStatement, FALSE, Http200)

\* the user removes the file from the uploader
ClearUpload ==
    /\ uploaded.present
    /\ Run(NoFile, edited_df, FALSE, Http200, NoStatement, FALSE, Http200)

\* the user presses "Import and auto-categorise this statement"
ClickImport ==
    /\ ImportButtonShown
    /\ \E http \in HttpOutcomes :
           IF ApiResult(http).ok
           THEN \E st \in Statements : Run(uploaded, edited_df, TRUE, http, st, FALSE, Http200)
           ELSE Run(uploaded, edited_df, TRUE, http, NoStatement, FALSE, Http200)

\* the user ticks or unticks "Import?" of a row
ToggleImport ==
    /\ EditorShown
    /\ \E i \in 1..Len(edited_df) :
           Run(uploaded, [edited_df EXCEPT ![i].import = ~@], FALSE, Http200, NoStatement,
               FALSE, Http200)

\* the user picks a type for a row
SetDirection ==
    /\ EditorShown
    /\ \E i \in 1..Len(edited_df) : \E v \in TypeOptions :
           Run(uploaded, [edited_df EXCEPT ![i].direction = v], FALSE, Http200, NoStatement,
               FALSE, Http200)

\* the user picks a category for a row
SetCategory ==
    /\ EditorShown
    /\ \E i \in 1..Len(edited_df) : \E v \in PickedCategories :
           Run(uploaded, [edited_df EXCEPT ![i].category = v], FALSE, Http200, NoStatement,
               FALSE, Http200)

\* the user presses "Save selected rows into my hustle"
ClickSave ==
    /\ EditorShown
    /\ \E http \in HttpOutcomes :
           Run(uploaded, edited_df, FALSE, Http200, NoStatement, TRUE, http)

\* any other interaction reruns the script
Rerun == Run(uploaded, edited_df, FALSE, Http200, NoStatement, FALSE, Http200)

UploadSessionFile == Upload(SessionFiles)

Next ==
    \/ UploadSessionFile
    \/ ClearUpload
    \/ ClickImport
    \/ ToggleImport
    \/ SetDirection
    \/ SetCategory
    \/ ClickSave
    \/ Rerun

Spec == Init /\ [][Next]_vars

\* the extractors alone, on every file of the bounded input sets
UploadCsv == ~uploaded.present /\ Upload(CsvFiles)

UploadPdf == ~uploaded.present /\ Upload(PdfFiles)

NextExtract ==
    \/ UploadCsv
    \/ UploadPdf
    \/ ClearUpload

SpecExtract == Init /\ [][NextExtract]_vars

\* uploads and imports alone, with a well-formed CSV and PDF statement among
\* the files
UploadGoodFile == Upload({ GoodCsv, GoodPdf })

NextImport ==
    \/ UploadGoodFile
    \/ UploadSessionFile
    \/ ClearUpload
    \/ ClickImport

SpecImport == Init /\ [][NextImport]_vars

---------------------------------------------------------------------------
(* The browser session around the import tab: account, pages, hustles *)

\* a new browser session: the sidebar on "Account", nobody logged in
InitSession ==
    /\ InitTab
    /\ page = "Account"
    /\ auth = NoAuth
    /\ profile_data = NoProfile
    /\ hustles = NoHustles
    /\ selected_index = 1

\* a run that does not reach the import tab: its widgets are not rendered,
\* so the uploader and the editor lose what they held; st.session_state
\* keeps "last_statement_import"
TabNotShown(msgs) ==
    /\ uploaded' = NoFile
    /\ preview_rows' = << >>
    /\ backend_rows' = << >>
    /\ origin' = << >>
    /\ messages' = msgs
    /\ importCall' = NoImport
    /\ confirmCall' = NoConfirm
    /\ session' = session
    /\ editorDf' = << >>
    /\ edited_df' = << >>
    /\ editorFresh' = FALSE
    /\ clicked' = "none"
    /\ callArgs' = NoArgs
    /\ importedVia' = importedVia

\* "Login" pressed on the Account page, 426-437
Login ==
    /\ page = "Account"
    /\ auth.access_token = Null
    /\ \E u \in Users : \E http \in HttpOutcomes :
           IF ApiResult(http).ok
           THEN /\ auth' = AuthOf(u)
                /\ TabNotShown(<< Msg("success", "logged_in", << >>, 0) >>)
           ELSE /\ auth' = auth
                /\ TabNotShown(<< ApiErrorMsg(ApiResult(http).value) >>)
    /\ UNCHANGED << page, profile_data, hustles, selected_index >>

\* "Log out" pressed on the Account page, 411-418
Logout ==
    /\ page = "Account"
    /\ auth.access_token # Null
    /\ auth' = NoAuth
    /\ TabNotShown(<< Msg("success", "logged_out", << >>, 0) >>)
    /\ UNCHANGED << page, profile_data, hustles, selected_index >>

\* "Account" picked in the sidebar, 1659-1697
GoToAccount ==
    /\ page = "My Hustle"
    /\ page' = "Account"
    /\ selected_index' = 1
    /\ TabNotShown(<< >>)
    /\ UNCHANGED << auth, profile_data, hustles >>

\* the messages of the top of page_hustle when the tab is not reached
PreambleMsgs(prof, hs, profHttp, hustlesHttp) ==
    (IF ~profile_data.has /\ ~ApiResult(profHttp).ok
     THEN << ApiErrorMsg(ApiResult(profHttp).value) >> ELSE << >>)
    \o (IF ~hustles.has /\ ~ApiResult(hustlesHttp).ok
        THEN << ApiErrorMsg(ApiResult(hustlesHttp).value) >>
        ELSE << Msg("info", "no_hustles_yet", << >>, 0) >>)

\* the top of page_hustle (1218-1280) after prof and hs were loaded, then
\* the tab with an empty uploader
HustlePageWith(prof, hs, profHttp, hustlesHttp) ==
    /\ profile_data' = prof
    /\ hustles' = hs
    /\ IF hs.list = << >>
       THEN TabNotShown(PreambleMsgs(prof, hs, profHttp, hustlesHttp))
       ELSE \E rv \in { ReviewBlock(session, << >>, << >>, FALSE, Http200) } :
                Rendered(NoFile, UploadBlock(NoFile, session, FALSE, Http200, NoStatement),
                         rv, "none")

\* "My Hustle" picked in the sidebar: require_login, load_profile_if_needed,
\* the hustle list, the selector on its first option, the tabs
OpenHustlePage ==
    /\ page = "Account"
    /\ page' = "My Hustle"
    /\ auth' = auth
    /\ selected_index' = 1
    /\ IF auth.access_token = Null
       THEN /\ TabNotShown(<< Msg("warning", "login_required", << >>, 0) >>)
            /\ UNCHANGED << profile_data, hustles >>
       ELSE \E profHttp \in HttpOutcomes : \E hustlesHttp \in HttpOutcomes :
                HustlePageWith(ProfileAfter(profile_data, auth.access_token, profHttp),
                               HustlesAfter(hustles, auth.access_token, hustlesHttp),
                               profHttp, hustlesHttp)

\* another hustle picked in "Choose which hustle to work with", 1273-1280
SelectHustle ==
    /\ OnTab
    /\ \E i \in 1..Len(hustles.list) :
           /\ i # selected_index
           /\ selected_index' = i
    /\ \E up \in { UploadBlock(uploaded, session, FALSE, Http200, NoStatement) } :
       \E rv \in { IF up.returned THEN NoReview
                   ELSE ReviewBlock(up.session, editorDf, edited_df, FALSE, Http200) } :
           Rendered(uploaded, up, rv, "none")
    /\ UNCHANGED << page, auth, profile_data, hustles >>

\* what the user may type into a cell of the id column
TypedIds == { "r9" }

\* the user edits the id cell of a row: the id column of st.data_editor has
\* no entry in column_config and the editor no `disabled` argument (1506-1527)
EditId ==
    /\ EditorShown
    /\ \E i \in 1..Len(edited_df) : \E v \in TypedIds :
           /\ edited_df[i].id # v
           /\ Run(uploaded, [edited_df EXCEPT ![i].id = v], FALSE, Http200, NoStatement,
                  FALSE, Http200)

\* the user uploads a statement on the tab
UploadStatement == OnTab /\ Upload({ GoodCsv })

NextSession ==
    \/ Login
    \/ Logout
    \/ GoToAccount
    \/ OpenHustlePage
    \/ SelectHustle
    \/ UploadStatement
    \/ ClickImport
    \/ EditId
    \/ ClickSave

SpecSession == InitSession /\ [][NextSession]_vars

---------------------------------------------------------------------------
(* Properties of the extractors (checked under SpecExtract) *)

IsCsv == uploaded.present /\ LowerEndsWith(uploaded, ".csv")

IsPdf == uploaded.present /\ LowerEndsWith(uploaded, ".pdf")

\* the CSV header holds the four required columns, so the row loop ran
CsvAccepted == IsCsv /\ required_cols \subseteq Range(uploaded.header)

\* the PDF was read without an exception, so the row loop ran
PdfParsed == IsPdf /\ uploaded.raisesAt = 0

\* the output entries appended while input row i was processed
EntriesOf(i) == { j \in 1..Len(origin) : origin[j] = i }

CsvCell(i, col) == CsvGet(uploaded.header, uploaded.rows[i], col)

CsvDebit(i) == ParseAmount(AmountStr(CsvCell(i, "debit")))

CsvCredit(i) == ParseAmount(AmountStr(CsvCell(i, "credit")))

\* date and description of CSV row i are non-empty once trimmed
CsvHasText(i) ==
    /\ Strip(OrEmpty(CsvCell(i, "date"))) # << >>
    /\ Strip(OrEmpty(CsvCell(i, "description"))) # << >>

PdfRowAt(i) == PdfInputRows(uploaded.pages)[i]

PdfDebit(i) == ParseAmount(AmountStr(PdfRowAt(i)[4]))

PdfCredit(i) == ParseAmount(AmountStr(PdfRowAt(i)[5]))

\* some cell of the row holds the marker
HasMarker(row, marker) ==
    \E k \in 1..Len(row) : row[k] # None_ /\ TextContains(row[k], marker)

\* PDF row i passes the filters that precede the amounts: not empty, not a
\* header row, at least five cells, a non-blank date
PdfReachesAmounts(i) ==
    /\ PdfRowAt(i) # << >>
    /\ ~(HasMarker(PdfRowAt(i), "Trans") /\ HasMarker(PdfRowAt(i), "Debit"))
    /\ Len(PdfRowAt(i)) >= 5
    /\ Strip(OrEmpty(PdfRowAt(i)[1])) # << >>

\* input row i produced exactly one entry, with this direction and amount
OneEntry(i, direction, amount) ==
    \E j \in 1..Len(origin) :
        /\ EntriesOf(i) = { j }
        /\ backend_rows[j].direction = direction
        /\ backend_rows[j].amount = amount

\* C1: every CSV data row with a non-empty (trimmed) date and description,
\* credit > 0 and debit = 0 yields exactly one entry, INCOME with amount =
\* credit; with debit > 0 and credit = 0 exactly one entry, EXPENSE with
\* amount = debit.
C1_CsvSingleSided ==
    CsvAccepted =>
        \A i \in 1..Len(uploaded.rows) :
            CsvHasText(i) =>
                /\ (CsvCredit(i) > 0 /\ CsvDebit(i) = 0) => OneEntry(i, "INCOME", CsvCredit(i))
                /\ (CsvDebit(i) > 0 /\ CsvCredit(i) = 0) => OneEntry(i, "EXPENSE", CsvDebit(i))

\* a CSV with an income-only row and an expense-only row, both emitted
C1_Witness ==
    /\ CsvAccepted
    /\ \E i, k \in 1..Len(uploaded.rows) :
        /\ CsvHasText(i) /\ CsvCredit(i) > 0 /\ CsvDebit(i) = 0 /\ EntriesOf(i) # {}
        /\ CsvHasText(k) /\ CsvDebit(k) > 0 /\ CsvCredit(k) = 0 /\ EntriesOf(k) # {}

\* the stated direction rule, for an input row with these amounts
FollowsDirectionRule(i, debit, credit) ==
    IF credit > 0 THEN OneEntry(i, "INCOME", credit)
    ELSE IF debit > 0 THEN OneEntry(i, "EXPENSE", debit)
    ELSE EntriesOf(i) = {}

\* C2: in both extractors, a row that passes the earlier filters yields
\* INCOME / credit when credit > 0, else EXPENSE / debit when debit > 0, and
\* no entry otherwise (negative values included).
C2_DirectionRule ==
    /\ CsvAccepted =>
           \A i \in 1..Len(uploaded.rows) :
               CsvHasText(i) => FollowsDirectionRule(i, CsvDebit(i), CsvCredit(i))
    /\ PdfParsed =>
           \A i \in 1..Len(PdfInputRows(uploaded.pages)) :
               PdfReachesAmounts(i) => FollowsDirectionRule(i, PdfDebit(i), PdfCredit(i))

\* input row i has a debit and a credit that both parse to 0
ZeroRow(i) ==
    IF IsCsv THEN CsvDebit(i) = 0 /\ CsvCredit(i) = 0
    ELSE Len(PdfRowAt(i)) >= 5 /\ PdfDebit(i) = 0 /\ PdfCredit(i) = 0

\* C3: in both extractors a row whose debit and credit both parse to 0
\* (blank and unparsable cells count as 0) is in neither output sequence;
\* the outputs are no longer than the input and strictly shorter when such
\* a row exists.
C3_ZeroRowsDropped ==
    (CsvAccepted \/ PdfParsed) =>
        LET n == Len(InputRows(uploaded))
        IN  /\ Len(preview_rows) = Len(origin)
            /\ Len(backend_rows) = Len(origin)
            /\ \A j \in 1..Len(origin) : origin[j] \in 1..n
            /\ \A i \in 1..n : ZeroRow(i) => EntriesOf(i) = {}
            /\ Len(backend_rows) <= n
            /\ (\E i \in 1..n : ZeroRow(i)) => Len(backend_rows) < n

\* a PDF with a row whose amounts are unparsable text and blank, dropped,
\* next to a row that is emitted
C3_Witness ==
    /\ PdfParsed
    /\ Len(backend_rows) = 1
    /\ \E i \in 1..Len(InputRows(uploaded)) :
        /\ Len(PdfRowAt(i)) >= 5
        /\ PdfRowAt(i)[4] = << "a" >> /\ PdfRowAt(i)[5] = << >>
        /\ ZeroRow(i)

\* C5: a PDF table row whose cells hold both "Trans" and "Debit" is in
\* neither output sequence, whatever its position, page, number of cells or
\* amounts.
C5_HeaderRowsDropped ==
    PdfParsed =>
        \A i \in 1..Len(PdfInputRows(uploaded.pages)) :
            (HasMarker(PdfRowAt(i), "Trans") /\ HasMarker(PdfRowAt(i), "Debit"))
                => EntriesOf(i) = {}

\* a row with both markers, seven cells and a debit > 0, placed after a row
\* that is emitted, on a later page
C5_Witness ==
    /\ PdfParsed
    /\ Len(uploaded.pages) > 1
    /\ Len(backend_rows) = 1
    /\ EntriesOf(1) # {}
    /\ Len(PdfInputRows(uploaded.pages)) = 2
    /\ HasMarker(PdfRowAt(2), "Trans") /\ HasMarker(PdfRowAt(2), "Debit")
    /\ Len(PdfRowAt(2)) = 7 /\ PdfDebit(2) > 0

---------------------------------------------------------------------------
(* Properties of the review session (checked under Spec) *)

\* a message of the given level and code is among msgs
Shows(msgs, level, code) ==
    \E k \in 1..Len(msgs) : msgs[k].level = level /\ msgs[k].code = code

\* the uploaded CSV lacks at least one of date, description, debit, credit
HeaderLacksRequired == IsCsv /\ ~(required_cols \subseteq Range(uploaded.header))

\* C4: when the header of the uploaded CSV lacks a required column, the run
\* shows one error whose columns are exactly the absent required columns,
\* no data row is processed (both output sequences are empty), the import
\* button is not offered and import_statement is not called.
C4_MissingHeaders ==
    HeaderLacksRequired =>
        /\ Len(messages) = 1
        /\ messages[1].level = "error"
        /\ messages[1].code = "csv_missing_columns"
        /\ \A c \in Range(messages[1].columns) :
               c \in required_cols /\ c \notin Range(uploaded.header)
        /\ \A c \in required_cols :
               c \notin Range(uploaded.header) => c \in Range(messages[1].columns)
        /\ preview_rows = << >>
        /\ backend_rows = << >>
        /\ origin = << >>
        /\ ~ImportButtonShown
        /\ ~importCall.called

\* a CSV with data rows and the columns date and debit only, uploaded while
\* a statement is in the session
C4_Witness ==
    /\ HeaderLacksRequired
    /\ session.has
    /\ uploaded.rows # << >>
    /\ Range(uploaded.header) \cap required_cols = { "date", "debit" }
    /\ Len(messages[1].columns) = 2

\* the decision a row of the statement starts with
ExpectedType(r) ==
    IF r.directionSuggested = Null THEN "INCOME" ELSE r.directionSuggested

ExpectedCategory(r) ==
    IF \E k \in 1..Len(CATEGORY_OPTIONS) : CATEGORY_OPTIONS[k] = r.categorySuggested
    THEN r.categorySuggested ELSE "MISC"

DefaultDecision(r) ==
    [import |-> TRUE, id |-> r.id, direction |-> ExpectedType(r),
     category |-> ExpectedCategory(r)]

\* the run made a successful import_statement call
JustImported ==
    /\ importCall.called
    /\ ~importCall.http.raised /\ importCall.http.status = 200 /\ importCall.http.decodes

Positions(df, Test(_)) == SelectSeq([i \in 1..Len(df) |-> i], LAMBDA i : Test(df[i]))

Included(row) == row.import

\* an included row with an id, a type and a category
Sendable(row) ==
    /\ row.import
    /\ row.id # Null /\ row.id # ""
    /\ row.direction # Null /\ row.direction # ""
    /\ row.category # Null /\ row.category # ""

\* item is the item of row
ItemOf(item, row) ==
    /\ item.importedTransactionId = row.id
    /\ item.finalType = row.direction
    /\ item.finalCategory = row.category

\* C7: every item of the confirm payload has the four fields
\* importedTransactionId, finalType, finalCategory and note only, is the item
\* of a row that is ticked for import, and the payload has no more items
\* than there are ticked rows.
C7_NoExcludedRowSent ==
    confirmCall.called =>
        /\ \A k \in 1..Len(confirmCall.items) :
               /\ DOMAIN confirmCall.items[k] =
                      { "importedTransactionId", "finalType", "finalCategory", "note" }
               /\ \E i \in 1..Len(edited_df) :
                      Included(edited_df[i]) /\ ItemOf(confirmCall.items[k], edited_df[i])
        /\ Len(confirmCall.items) <= Len(Positions(edited_df, Included))

\* a payload sent while one row is unticked and another, ticked, has an
\* edited type or category
C7_Witness ==
    /\ confirmCall.called
    /\ \E i \in 1..Len(edited_df) : ~edited_df[i].import /\ Truthy(edited_df[i].id)
    /\ \E j \in 1..Len(edited_df) : edited_df[j].import /\ edited_df[j] # editorDf[j]

\* C8 as stated: the confirm payload has exactly one item, in row order, for
\* every row ticked for import, with the row's id, type and category.
C8_EveryIncludedRowSent ==
    confirmCall.called =>
        LET inc == Positions(edited_df, Included)
        IN  /\ Len(confirmCall.items) = Len(inc)
            /\ \A k \in 1..Len(inc) :
                   k <= Len(confirmCall.items)
                       /\ ItemOf(confirmCall.items[k], edited_df[inc[k]])

\* C8 amended: after "Save selected rows", the confirm payload has exactly
\* one item, in row order, for every ticked row that has an id, a type and
\* a category, with the row's values; a ticked row that lacks one of them is
\* left out; the call is made when there is at least one such row.
C8_EverySendableRowSent ==
    clicked = "save" =>
        LET snd == Positions(edited_df, Sendable)
        IN  /\ snd # << >> => confirmCall.called
            /\ confirmCall.called =>
                   /\ Len(confirmCall.items) = Len(snd)
                   /\ \A k \in 1..Len(snd) :
                          ItemOf(confirmCall.items[k], edited_df[snd[k]])

\* a payload sent while a ticked row has no id
C8_Witness ==
    /\ confirmCall.called
    /\ Len(confirmCall.items) = 1
    /\ \E i \in 1..Len(edited_df) : edited_df[i].import /\ edited_df[i].id = Null

\* C9: pressing "Save selected rows" while no row of the editor is to be
\* sent makes no confirm_statement call, shows the warning, and leaves the
\* statement of the session, the decisions and the editor as they were.
C9_EmptyCommitRefused ==
    [][ (/\ clicked' = "save"
         /\ EditorShown
         /\ \A i \in 1..Len(edited_df) : ~Sendable(edited_df[i]))
        => (/\ ~confirmCall'.called
            /\ Shows(messages', "warning", "no_rows_selected")
            /\ ~Shows(messages', "success", "transactions_imported")
            /\ session' = session
            /\ edited_df' = edited_df
            /\ editorDf' = editorDf
            /\ EditorShown') ]_vars

\* "Save selected rows" pressed with two rows, both unticked
C9_Witness ==
    /\ clicked = "save"
    /\ Len(edited_df) = 2
    /\ \A i \in 1..2 : ~edited_df[i].import
    /\ ~confirmCall.called
    /\ Shows(messages, "warning", "no_rows_selected")

\* the confirm call did not succeed: an exception (network error, timeout,
\* undecodable body) or a status outside 200..299
ConfirmFailed(call) ==
    /\ call.called
    /\ \/ call.http.raised
       \/ ~call.http.decodes
       \/ call.http.status < 200
       \/ call.http.status > 299

ConfirmSucceeded(call) ==
    /\ call.called
    /\ ~call.http.raised /\ call.http.decodes
    /\ call.http.status >= 200 /\ call.http.status <= 299

\* C11: a run whose confirm_statement call succeeds leaves no decisions and
\* no editor for the statement, and the run that follows it makes no
\* confirm_statement call unless it loads a new import.
C11_CommittedDiscardsDecisions ==
    [][ /\ ConfirmSucceeded(confirmCall') => (~EditorShown' /\ edited_df' = << >>)
        /\ (ConfirmSucceeded(confirmCall) /\ ~JustImported') => ~confirmCall'.called ]_vars

\* C12: the session holds one statement; a run that makes a successful
\* import_statement call leaves in the session exactly the statement the
\* call returned, and the editor is built from its rows, whatever the session
\* and the editor held before; no other run changes the statement of the
\* session.
C12_ImportReplacesStatement ==
    [][ /\ JustImported' =>
            /\ session' = [has |-> TRUE, statement |-> importCall'.returned]
            /\ Len(editorDf') = Len(RowsOf(importCall'.returned))
            /\ \A i \in 1..Len(editorDf') :
                   editorDf'[i].id = RowsOf(importCall'.returned)[i].id
        /\ ~JustImported' => session' = session ]_vars

\* a successful import made while the editor of an earlier statement was on
\* the page with an edited decision (the editor is not created anew, so an
\* earlier run showed it)
C12_Witness ==
    /\ JustImported
    /\ session.statement = importCall.returned
    /\ EditorShown
    /\ ~editorFresh
    /\ edited_df # editorDf

\* the closed category vocabulary
InVocabulary(c) ==
    c \in { "SALES", "STOCK", "FUEL", "DATA_AIRTIME", "RENT", "EQUIPMENT", "TRANSPORT",
            "FOOD", "MISC" }

\* C13: the category of every decision the editor returns and of every item
\* of a confirm payload is one of SALES, STOCK, FUEL, DATA_AIRTIME, RENT,
\* EQUIPMENT, TRANSPORT, FOOD, MISC, and every row of the statement has its
\* decision (none is rejected for its suggested category).
C13_CategoryInVocabulary ==
    /\ (session.has /\ EditorShown) =>
           /\ Len(edited_df) = Len(RowsOf(session.statement))
           /\ \A i \in 1..Len(edited_df) : InVocabulary(edited_df[i].category)
    /\ confirmCall.called =>
           \A k \in 1..Len(confirmCall.items) :
               InVocabulary(confirmCall.items[k].finalCategory)

\* C14: the type of every decision the editor returns and of every item of
\* a confirm payload is INCOME or EXPENSE.
C14_TypeInEnum ==
    /\ EditorShown =>
           \A i \in 1..Len(edited_df) : edited_df[i].direction \in { "INCOME", "EXPENSE" }
    /\ confirmCall.called =>
           \A k \in 1..Len(confirmCall.items) :
               confirmCall.items[k].finalType \in { "INCOME", "EXPENSE" }

\* the extraction ran to its end and appended nothing
ExtractedNothing == (CsvAccepted \/ PdfParsed) /\ backend_rows = << >>

\* C15: when the extraction of the uploaded file ends with no entry, the run
\* shows one warning and no error, does not offer the import button and
\* makes no import_statement call; every import_statement call carries at
\* least one row.
C15_EmptyResultStops ==
    /\ ExtractedNothing =>
           /\ Len(messages) = 1
           /\ messages[1].level = "warning"
           /\ messages[1].code = "no_usable_rows"
           /\ ~ImportButtonShown
           /\ ~importCall.called
    /\ importCall.called => importCall.rows # << >>

\* a CSV with the four columns and a data row that is skipped, uploaded
\* while a statement is in the session
C15_Witness ==
    /\ ExtractedNothing
    /\ uploaded.rows # << >>
    /\ session.has
    /\ Shows(messages, "warning", "no_usable_rows")

\* the name of the uploaded file ends in neither .csv nor .pdf, in any case
UnsupportedName ==
    uploaded.present /\ uploaded.ext \notin { ".csv", ".CSV", ".pdf", ".Pdf" }

\* C16: when the name of the uploaded file ends in neither .csv nor .pdf,
\* the run shows one error, no extractor runs (both output sequences are
\* empty), the import button is not offered and no import_statement call is
\* made.
C16_UnsupportedRejected ==
    UnsupportedName =>
        /\ Len(messages) = 1
        /\ messages[1].level = "error"
        /\ messages[1].code = "unsupported_file_type"
        /\ preview_rows = << >>
        /\ backend_rows = << >>
        /\ origin = << >>
        /\ ~ImportButtonShown
        /\ ~importCall.called

\* a .txt file holding a header and a data row the CSV extractor would
\* accept, uploaded while a statement is in the session
C16_Witness ==
    /\ UnsupportedName
    /\ uploaded.ext = ".txt"
    /\ required_cols \subseteq Range(uploaded.header)
    /\ uploaded.rows # << >>
    /\ session.has
    /\ Shows(messages, "error", "unsupported_file_type")

\* every way a request can end: an exception before a response, or a
\* response with one of these statuses and a body that decodes or not
AnyHttp ==
    [raised : BOOLEAN, status : { 200, 201, 302, 399, 400, 422, 500 }, decodes : BOOLEAN]

\* the pair C17 states for a request that ended as http
StatedResult(http) ==
    IF http.raised \/ ~http.decodes THEN [ok |-> FALSE, value |-> "exception"]
    ELSE IF http.status >= 400 THEN [ok |-> FALSE, value |-> "body"]
    ELSE [ok |-> TRUE, value |-> "body"]

\* what the run shows for a call that ended as call.http
ShowsResultOf(call, done) ==
    IF StatedResult(call.http).ok
    THEN Shows(messages, "success", done)
    ELSE \E k \in 1..Len(messages) :
             /\ messages[k].level = "error" /\ messages[k].code = "api_error"
             /\ messages[k].columns = << StatedResult(call.http).value >>

\* C17: import_statement and confirm_statement return a pair for every way
\* the request can end: (False, {"error": ...}) when an exception is raised
\* (network error, timeout, undecodable body), (False, body) for a status
\* >= 400, (True, body) otherwise, and ok only for a status below 400; the
\* run that made the call shows the result and goes on.
C17_ApiNeverRaises ==
    /\ \A http \in AnyHttp :
           /\ ApiResult(http) = StatedResult(http)
           /\ ApiResult(http).ok => (~http.raised /\ http.status < 400)
    /\ importCall.called => ShowsResultOf(importCall, "statement_imported")
    /\ confirmCall.called => ShowsResultOf(confirmCall, "transactions_imported")

\* a confirm call answered with status 200 and a body that does not decode
C17_Witness ==
    /\ confirmCall.called
    /\ confirmCall.http.status = 200
    /\ ~confirmCall.http.raised
    /\ ~confirmCall.http.decodes
    /\ Shows(messages, "error", "api_error")
    /\ ~Shows(messages, "success", "transactions_imported")

---------------------------------------------------------------------------
(* Further properties of the extractors (checked under SpecExtract) *)

\* C18: every entry either extractor appends has an amount >= 0, in the
\* rows sent to the import service and in the preview.
C18_NonNegativeAmount ==
    \A j \in 1..Len(backend_rows) :
        /\ backend_rows[j].amount >= 0
        /\ preview_rows[j].mapped_amount >= 0

\* C19: every entry either extractor appends has a description that is not
\* the empty string.
C19_NonEmptyDescription ==
    \A j \in 1..Len(backend_rows) :
        /\ backend_rows[j].description # << >>
        /\ backend_rows[j].description # None_

\* the date or the description of CSV row i is missing or blank once trimmed
CsvLacksText(i) ==
    \/ CsvCell(i, "date") = None_
    \/ Strip(CsvCell(i, "date")) = << >>
    \/ CsvCell(i, "description") = None_
    \/ Strip(CsvCell(i, "description")) = << >>

\* C20: a CSV data row whose date or description is missing or blank once
\* trimmed appends nothing to either output sequence, the run shows no
\* error, and every later row with a date, a description and a positive
\* debit or credit still appends its entry.
C20_BlankRowsDropped ==
    CsvAccepted =>
        /\ ~\E k \in 1..Len(messages) : messages[k].level = "error"
        /\ Len(preview_rows) = Len(origin) /\ Len(backend_rows) = Len(origin)
        /\ \A i \in 1..Len(uploaded.rows) :
               CsvLacksText(i) =>
                   /\ EntriesOf(i) = {}
                   /\ \A k \in (i + 1)..Len(uploaded.rows) :
                          (CsvHasText(k) /\ (CsvCredit(k) > 0 \/ CsvDebit(k) > 0))
                              => Cardinality(EntriesOf(k)) = 1

\* a CSV whose first row has a blank date and a debit of 5 and whose second
\* row is emitted
C20_Witness ==
    /\ CsvAccepted
    /\ Len(uploaded.rows) = 2
    /\ CsvLacksText(1)
    /\ CsvDebit(1) = 5
    /\ origin = << 2 >>
    /\ messages = << >>

\* the number a debit or credit cell stands for: its digits read without
\* blanks and thousands separators, 0 for a blank, missing or non-numeric
\* cell
ValueOfCell(cell) ==
    CASE cell = << "0" >> -> 0
      [] cell = << "4" >> -> 4
      [] cell = << "5" >> -> 5
      [] cell = << "7" >> -> 7
      [] cell = << "9" >> -> 9
      [] cell = << "-", "3" >> -> 0 - 3
      [] cell = << "1", ",", "2" >> -> 12
      [] cell = << " ", "1", ",", "2" >> -> 12
      [] OTHER -> 0

\* the debit and credit cells of input row i of the uploaded file
DebitCell(i) == IF IsCsv THEN CsvCell(i, "debit") ELSE PdfRowAt(i)[4]

CreditCell(i) == IF IsCsv THEN CsvCell(i, "credit") ELSE PdfRowAt(i)[5]

\* input row i passes the filters on its text and carries an amount, going
\* by what its cells stand for
CarriesAmount(i) ==
    IF IsCsv
    THEN CsvHasText(i) /\ (ValueOfCell(CreditCell(i)) > 0 \/ ValueOfCell(DebitCell(i)) > 0)
    ELSE PdfReachesAmounts(i)
            /\ (ValueOfCell(CreditCell(i)) # 0 \/ ValueOfCell(DebitCell(i)) # 0)

\* C21: whatever the cells of the rows hold, the extraction of a readable
\* file shows no error, every input row appends one entry or none, the debit
\* and credit of every preview row are the values of the row's cells read
\* without thousands separators (0 for a blank, missing or non-numeric
\* cell), and every row that carries an amount appends its entry no matter
\* which rows precede it.
C21_MalformedRowsTolerated ==
    (CsvAccepted \/ PdfParsed) =>
        /\ ~\E k \in 1..Len(messages) : messages[k].level = "error"
        /\ \A i \in 1..Len(InputRows(uploaded)) :
               /\ Cardinality(EntriesOf(i)) <= 1
               /\ CarriesAmount(i) => Cardinality(EntriesOf(i)) = 1
        /\ \A j \in 1..Len(origin) :
               /\ preview_rows[j].debit = ValueOfCell(DebitCell(origin[j]))
               /\ preview_rows[j].credit = ValueOfCell(CreditCell(origin[j]))

\* a CSV whose first row has a non-numeric debit and an empty credit and is
\* dropped, and whose second row has a debit of " 1,2" and is emitted with
\* a debit of 12
C21_Witness ==
    /\ CsvAccepted
    /\ Len(uploaded.rows) = 2
    /\ DebitCell(1) = << "a" >> /\ CreditCell(1) = << >>
    /\ DebitCell(2) = << " ", "1", ",", "2" >>
    /\ origin = << 2 >>
    /\ preview_rows[1].debit = 12
    /\ messages = << >>

\* the trimmed date cell of input row i of the uploaded file
DateCell(i) ==
    IF IsCsv THEN Strip(OrEmpty(CsvCell(i, "date"))) ELSE Strip(OrEmpty(PdfRowAt(i)[1]))

\* C25: after either extractor ran, the preview rows and the backend rows
\* are equally many; the j-th of each comes from the same input row, later
\* entries from later input rows; and the j-th preview row's date,
\* mapped_direction and mapped_amount are the j-th backend row's date,
\* direction and amount.
C25_ParallelSequences ==
    /\ Len(preview_rows) = Len(backend_rows)
    /\ Len(origin) = Len(backend_rows)
    /\ \A j \in 1..Len(origin) :
           /\ origin[j] \in 1..Len(InputRows(uploaded))
           /\ \A k \in (j + 1)..Len(origin) : origin[j] < origin[k]
           /\ preview_rows[j].date = DateCell(origin[j])
           /\ backend_rows[j].date = DateCell(origin[j])
           /\ preview_rows[j].debit = ValueOfCell(DebitCell(origin[j]))
           /\ preview_rows[j].credit = ValueOfCell(CreditCell(origin[j]))
           /\ backend_rows[j].amount \in { preview_rows[j].debit, preview_rows[j].credit }
           /\ preview_rows[j].mapped_direction = backend_rows[j].direction
           /\ preview_rows[j].mapped_amount = backend_rows[j].amount

\* a PDF with two emitted rows of different amounts and directions
C25_Witness ==
    /\ PdfParsed
    /\ origin = << 1, 2 >>
    /\ backend_rows[1].amount # backend_rows[2].amount
    /\ backend_rows[1].direction # backend_rows[2].direction

---------------------------------------------------------------------------
(* Further properties of the review session (checked under Spec; C26 under *)
(* SpecImport)                                                             *)

\* C22: a run in which "Import" was not pressed (the editor is built or
\* rebuilt, a decision is edited, a commit is refused, fails or succeeds)
\* leaves the statement of the session, rows included, exactly as it was;
\* a run in which it was pressed leaves either that statement or the one
\* the import call returned, unaltered by the editor built in the same run.
C22_ReviewKeepsStatement ==
    [][ /\ clicked' # "import" => session' = session
        /\ clicked' = "import" =>
               \/ session' = session
               \/ session' = [has |-> TRUE, statement |-> importCall'.returned] ]_vars

\* a successful commit of decisions that differ from the suggestions of the
\* statement, which is still in the session with its rows
C22_Witness ==
    /\ ConfirmSucceeded(confirmCall)
    /\ clicked = "save"
    /\ session.has
    /\ edited_df # editorDf
    /\ \E i \in 1..Len(editorDf) :
           editorDf[i].direction # RowsOf(session.statement)[i].directionSuggested

\* pdfplumber raised while the uploaded PDF was opened or read
PdfRaised == IsPdf /\ uploaded.raisesAt # 0

\* C23: when pdfplumber raises on the uploaded PDF, on opening it or on a
\* later page, the run shows exactly one message, the parse error; it holds
\* no preview row and no backend row, not even for the rows of the pages
\* read before the failure; the import button is not offered and
\* import_statement is not called.
C23_PdfFailureAtomic ==
    PdfRaised =>
        /\ Len(messages) = 1
        /\ messages[1].level = "error"
        /\ messages[1].code = "pdf_parse"
        /\ preview_rows = << >>
        /\ backend_rows = << >>
        /\ origin = << >>
        /\ ~ImportButtonShown
        /\ ~importCall.called

\* a PDF whose first page holds a row with a debit and whose second page
\* makes pdfplumber raise, uploaded while a statement is in the session
C23_Witness ==
    /\ PdfRaised
    /\ uploaded.raisesAt = 2
    /\ PdfRow(PdfInputRows(SubSeq(uploaded.pages, 1, 1))[1]).emit
    /\ session.has
    /\ Shows(messages, "error", "pdf_parse")

\* the entries of the one row of GoodCsv: a credit of 5
GoodCsvBackend ==
    << [date |-> T_d, description |-> T_x, amount |-> 5, direction |-> "INCOME",
        reference |-> None_, counterparty |-> None_] >>

GoodCsvPreview ==
    << [date |-> T_d, description |-> T_x, debit |-> 0, credit |-> 5,
        mapped_direction |-> "INCOME", mapped_amount |-> 5] >>

\* C24: a run that extracts the file the previous run extracted ends with
\* the same preview rows and backend rows, whatever the session holds and
\* whichever button was pressed; and whenever the file with the one row
\* (d, x, "", "5") is the uploaded one, after any earlier uploads, imports
\* and commits, the rows are the one INCOME entry of amount 5.
C24_ExtractionStateless ==
    [][ /\ uploaded' = uploaded =>
               /\ preview_rows' = preview_rows
               /\ backend_rows' = backend_rows
        /\ uploaded' = GoodCsv =>
               /\ preview_rows' = GoodCsvPreview
               /\ backend_rows' = GoodCsvBackend ]_vars

\* the one-row file extracted again in the run of a commit, with a
\* statement of an earlier import in the session
C24_Witness ==
    /\ uploaded = GoodCsv
    /\ backend_rows = GoodCsvBackend
    /\ session.has
    /\ clicked = "save"
    /\ confirmCall.called

\* C26: an import_statement call carries as rows the backend rows of the
\* run, all of them and in extraction order (one per emitted input row of
\* the file), as fileName the name of the uploaded file, and as source
\* "PDF upload" for a name ending in .pdf and "CSV upload" for a name ending
\* in .csv, letter case aside.
C26_ImportRequest ==
    importCall.called =>
        /\ importCall.rows = backend_rows
        /\ Len(importCall.rows) = Len(origin)
        /\ \A i \in 1..Len(InputRows(uploaded)) :
               (IF IsCsv THEN CsvRow(uploaded.header, uploaded.rows[i]).emit
                ELSE PdfRow(PdfRowAt(i)).emit)
                   => \E j \in 1..Len(importCall.rows) : origin[j] = i
        /\ importCall.fileName = << uploaded.stem, uploaded.ext >>
        /\ uploaded.ext \in { ".pdf", ".Pdf" } => importCall.source = "PDF upload"
        /\ uploaded.ext \in { ".csv", ".CSV" } => importCall.source = "CSV upload"

\* an import call for a PDF with two entries, an EXPENSE and an INCOME
C26_Witness ==
    /\ importCall.called
    /\ uploaded.ext = ".pdf"
    /\ importCall.source = "PDF upload"
    /\ Len(importCall.rows) = 2
    /\ importCall.rows[1].direction = "EXPENSE"
    /\ importCall.rows[2].direction = "INCOME"

\* the import call did not succeed: an exception (network error, timeout,
\* undecodable body) or a status outside 200..299
ImportFailed(call) ==
    /\ call.called
    /\ \/ call.http.raised
       \/ ~call.http.decodes
       \/ call.http.status < 200
       \/ call.http.status > 299

---------------------------------------------------------------------------
(* Properties of the browser session (checked under SpecSession) *)

\* C28: a confirm_statement call is made with the hustle id that the
\* import_statement call which returned the statement of the session was
\* made with, whatever hustles were selected in between.
C28_ConfirmToImportHustle ==
    confirmCall.called => callArgs.hustle_id = importedVia.hustle_id

\* the ids of the hustles the backend lists for a token
HustleIdsOf(token) == { HustlesOf(token)[i].id : i \in 1..Len(HustlesOf(token)) }

\* C29: while a user is logged in, the profile, the hustle list and the
\* statement held by the session were fetched with that user's token, and
\* a call made with that token carries a hustle id of that user's hustles
\* and, for a confirm call, a statement imported with that token.
C29_NoLeakAcrossAccounts ==
    auth.access_token # Null =>
        /\ (profile_data.has /\ profile_data.data # Null)
               => profile_data.token = auth.access_token
        /\ (hustles.has /\ hustles.list # << >>) => hustles.token = auth.access_token
        /\ session.has => importedVia.access_token = auth.access_token
        /\ (importCall.called \/ confirmCall.called) =>
               /\ callArgs.access_token = auth.access_token
               /\ callArgs.hustle_id \in HustleIdsOf(callArgs.access_token)
        /\ confirmCall.called => importedVia.access_token = callArgs.access_token

\* the ids of the rows of a statement
RowIdsOf(statement) == { RowsOf(statement)[i].id : i \in 1..Len(RowsOf(statement)) }

\* C30: a confirm_statement call is made only when an import_statement call
\* succeeded earlier in the session; it carries the id of the statement
\* that import returned (the one the session holds), at least one item,
\* and as item ids only ids of rows of that statement.
C30_ConfirmFollowsImport ==
    confirmCall.called =>
        /\ session.has
        /\ importedVia # NoArgs
        /\ confirmCall.statement_id = session.statement.id
        /\ confirmCall.items # << >>
        /\ \A k \in 1..Len(confirmCall.items) :
               confirmCall.items[k].importedTransactionId \in RowIdsOf(session.statement)

=============================================================================
